---- MODULE Spec2Model ----
(***************************************************************************)
(* Model of src/src/utils/buildASTSchema.js: buildASTSchema turns a parsed *)
(* schema-definition document into a linked graph of named types and a     *)
(* list of diagnostics.                                                    *)
(*                                                                         *)
(* One behaviour is one call of buildASTSchema on one document, followed   *)
(* by the forcing, in any order, of the deferred field and interface       *)
(* thunks of the types it built.                                           *)
(***************************************************************************)
EXTENDS Integers, Sequences, FiniteSets, TLC

(***************************************************************************)
(* Bounds of the explored inputs.                                          *)
(***************************************************************************)
MaxDefs == 3        \* definitions per document of the partition family
MaxOps == 2         \* operation types per schema block of the root family
MaxWrapDepth == 3   \* list/non-null modifiers around a type reference
MaxMembers == 2     \* member types per union of the union family
MaxCallDepth == 6   \* nested typeDefNamed activations before the engine gives up

(***************************************************************************)
(* Values.                                                                 *)
(***************************************************************************)
Undefined == "undefined"

Null == [k |-> "Null"]

DEFAULT_DEPRECATION_REASON == "No longer supported"

\* Keys of the innerTypeMap literal.
BuiltinNames ==
  {"String", "Int", "Float", "Boolean", "ID", "__Schema", "__Directive",
   "__DirectiveLocation", "__Type", "__Field", "__InputValue", "__EnumValue",
   "__TypeKind"}

\* innerTypeMap is an object literal, so it also answers for the property
\* names it inherits from Object.prototype.
ObjectPrototypeNames == {"constructor", "toString"}

\* Names a document of the explored families can define or mention.
UserNames ==
  {"Query", "Mutation", "Subscription", "A", "B", "E", "I", "S", "U", "V",
   "Bogus"}

AllNames == UserNames \cup BuiltinNames \cup ObjectPrototypeNames

(***************************************************************************)
(* AST nodes (graphql/language/ast).                                       *)
(***************************************************************************)
NamedTypeNode(n) == [kind |-> "NamedType", name |-> n]

ListTypeNode(t) == [kind |-> "ListType", type |-> t]

NonNullTypeNode(t) == [kind |-> "NonNullType", type |-> t]

DefNode(kind, name) ==
  [kind |-> kind, name |-> name, operationTypes |-> <<>>, fields |-> <<>>,
   interfaces |-> <<>>, types |-> <<>>, values |-> <<>>, arguments |-> <<>>]

SchemaDefinition(ops) ==
  [DefNode("SchemaDefinition", "") EXCEPT !.operationTypes = ops]

OperationType(op, n) == [operation |-> op, type |-> NamedTypeNode(n)]

ScalarDef(n) == DefNode("ScalarTypeDefinition", n)

ObjectDef(n, fields, ifaces) ==
  [DefNode("ObjectTypeDefinition", n) EXCEPT !.fields = fields,
                                             !.interfaces = ifaces]

InterfaceDef(n, fields) ==
  [DefNode("InterfaceTypeDefinition", n) EXCEPT !.fields = fields]

UnionDef(n, members) ==
  [DefNode("UnionTypeDefinition", n) EXCEPT !.types = members]

EnumDef(n, values) ==
  [DefNode("EnumTypeDefinition", n) EXCEPT !.values = values]

InputObjectDef(n, fields) ==
  [DefNode("InputObjectTypeDefinition", n) EXCEPT !.fields = fields]

DirectiveDef(n, args) ==
  [DefNode("DirectiveDefinition", n) EXCEPT !.arguments = args]

\* A definition the switch of the partition loop ignores.
OperationDef == DefNode("OperationDefinition", "")

FieldNode(n, t, args, dirs) ==
  [name |-> n, type |-> t, arguments |-> args, directives |-> dirs]

InputValueNode(n, t, dflt) == [name |-> n, type |-> t, defaultValue |-> dflt]

EnumValueNode(n, dirs) == [name |-> n, directives |-> dirs]

ArgumentNode(n, v) == [name |-> n, value |-> v]

DirectiveNode(n, args) == [name |-> n, arguments |-> args]

TypeDefinitionKinds ==
  {"ScalarTypeDefinition", "ObjectTypeDefinition", "InterfaceTypeDefinition",
   "EnumTypeDefinition", "UnionTypeDefinition", "InputObjectTypeDefinition"}

(***************************************************************************)
(* Types (graphql/type/definition).                                        *)
(***************************************************************************)
\* A reference to the named type stored at instances[id]: two references are
\* the same instance iff they carry the same id.
Instance(id) == [k |-> "Instance", id |-> id]

Builtin(n) == [k |-> "Builtin", name |-> n]

\* The value innerTypeMap[n] has for an inherited property name n.
Inherited(n) == [k |-> "Inherited", name |-> n]

GraphQLList(t) == [k |-> "List", ofType |-> t]

GraphQLNonNull(t) == [k |-> "NonNull", ofType |-> t]

\* The members of PLACEHOLDER_TYPES (../constants).
PLACEHOLDER_TYPES(slot) == [k |-> "Placeholder", slot |-> slot]

(***************************************************************************)
(* The documents explored.                                                 *)
(***************************************************************************)
SeqsUpTo(S, n) == UNION {[1..k -> S] : k \in 0..n}

NonEmptySeqsUpTo(S, n) == UNION {[1..k -> S] : k \in 1..n}

RECURSIVE Restrict(_, _)
\* The subsequence of s at the positions in I.
Restrict(s, I) ==
  IF s = <<>> THEN <<>>
  ELSE LET rest == Restrict(Tail(s), {j - 1 : j \in I \ {1}})
       IN IF 1 \in I THEN <<Head(s)>> \o rest ELSE rest

SubSeqs(s) == {Restrict(s, I) : I \in SUBSET (1..Len(s))}

RECURSIVE TypeRefs(_, _)
\* Every type reference with at most d modifiers around a name of names.
TypeRefs(d, names) ==
  IF d = 0 THEN {NamedTypeNode(n) : n \in names}
  ELSE TypeRefs(d - 1, names)
       \cup {ListTypeNode(t) : t \in TypeRefs(d - 1, names)}
       \cup {NonNullTypeNode(t) : t \in TypeRefs(d - 1, names)}

StringRef == NamedTypeNode("String")

\* Partition family: duplicate names, several schema blocks, ignored
\* definitions, in every order.
PartitionDefs ==
  {SchemaDefinition(<<OperationType("query", "A")>>),
   SchemaDefinition(<<OperationType("mutation", "B")>>),
   ObjectDef("A", <<>>, <<>>), ScalarDef("A"), ScalarDef("String"),
   OperationDef, DirectiveDef("skip", <<>>)}

PartitionDocs == SeqsUpTo(PartitionDefs, MaxDefs)

\* Root family: a schema block (or none) and a choice of the conventional
\* root types.
RootOperationTypes ==
  {OperationType(op, n) : op \in {"query", "mutation", "subscription"},
                          n \in {"A", "Query"}}

RootTypeDefs ==
  <<ObjectDef("Query", <<>>, <<>>), ScalarDef("Mutation"),
    EnumDef("Subscription", <<>>), ScalarDef("A")>>

RootDocs ==
  {<<SchemaDefinition(ops)>> \o ts :
     ops \in SeqsUpTo(RootOperationTypes, MaxOps), ts \in SubSeqs(RootTypeDefs)}
  \cup SubSeqs(RootTypeDefs)

\* Reference family: one field whose type is any reference.
FieldRefNames == {"Query", "B", "Bogus", "String", "constructor"}

FieldDocs ==
  {<<ObjectDef("Query", <<FieldNode("f", r, <<>>, <<>>)>>, <<>>)>> \o extra :
     r \in TypeRefs(MaxWrapDepth, FieldRefNames),
     extra \in {<<>>, <<ScalarDef("B")>>,
                <<InputObjectDef("B",
                    <<InputValueNode("x", NamedTypeNode("B"), Undefined)>>)>>}}

\* Argument and input-field references.
InputRefNames == {"B", "Bogus", "toString", "Query", "Int"}

InputDocs ==
  {<<ObjectDef("Query",
       <<FieldNode("f", StringRef, <<InputValueNode("x", r, Undefined)>>,
                   <<>>)>>, <<>>),
     InputObjectDef("I", <<InputValueNode("y", r, Undefined)>>),
     DirectiveDef("include", <<InputValueNode("if", r, Undefined)>>)>>
   \o extra :
     r \in TypeRefs(1, InputRefNames),
     extra \in {<<>>, <<EnumDef("B", <<>>)>>}}

\* Implemented interfaces.
InterfaceRefNames == {"I", "S", "A", "Bogus", "constructor"}

InterfaceDocs ==
  {<<ObjectDef("A", <<>>, [k \in DOMAIN ns |-> NamedTypeNode(ns[k])]),
     InterfaceDef("I", <<FieldNode("a", NamedTypeNode("A"), <<>>, <<>>)>>),
     ScalarDef("S")>> :
     ns \in NonEmptySeqsUpTo(InterfaceRefNames, 2)}

\* Unions, including unions that name themselves or each other.
MemberNames == {"A", "S", "U", "V", "Bogus", "toString"}

UnionDocs ==
  {<<UnionDef("U", [k \in DOMAIN ns |-> NamedTypeNode(ns[k])]),
     ObjectDef("A", <<FieldNode("u", NamedTypeNode("U"), <<>>, <<>>)>>, <<>>),
     ScalarDef("S"),
     UnionDef("V", <<NamedTypeNode(v)>>)>> :
     ns \in NonEmptySeqsUpTo(MemberNames, MaxMembers), v \in {"A", "U"}}

\* Mutually recursive object, interface and input-object definitions.
CycleDocs ==
  {<<ObjectDef("A", <<FieldNode("b", NamedTypeNode("B"), <<>>, <<>>)>>,
               <<NamedTypeNode("I")>>),
     ObjectDef("B", <<FieldNode("a", NamedTypeNode("A"), <<>>, <<>>)>>, <<>>),
     InterfaceDef("I", <<FieldNode("a", NamedTypeNode("A"), <<>>, <<>>)>>)>>,
   <<ObjectDef("Query", <<FieldNode("q", NonNullTypeNode(NamedTypeNode("Query")),
                           <<InputValueNode("i", NamedTypeNode("I"), Undefined)>>,
                           <<>>)>>, <<>>),
     InputObjectDef("I", <<InputValueNode("i", NamedTypeNode("I"), Undefined)>>),
     SchemaDefinition(<<OperationType("query", "Query")>>)>>}

\* Deprecation: an optional explicit definition of a built-in directive and
\* uses of @deprecated on a field and on an enum value.
DeprecatedDefs ==
  {<<>>,
   <<DirectiveDef("deprecated", <<InputValueNode("reason", StringRef, "Custom")>>)>>,
   <<DirectiveDef("deprecated", <<InputValueNode("why", StringRef, Undefined)>>)>>,
   <<DirectiveDef("skip", <<>>)>>}

DeprecatedUses ==
  {<<>>,
   <<DirectiveNode("deprecated", <<>>)>>,
   <<DirectiveNode("deprecated", <<ArgumentNode("reason", "r1")>>)>>,
   <<DirectiveNode("deprecated", <<ArgumentNode("why", "w1")>>)>>,
   <<DirectiveNode("other", <<ArgumentNode("reason", "r0")>>),
     DirectiveNode("deprecated", <<ArgumentNode("why", "w1"),
                                   ArgumentNode("reason", "r1")>>),
     DirectiveNode("deprecated", <<ArgumentNode("reason", "r2")>>)>>}

DeprecationDocs ==
  {ds \o <<ObjectDef("Query", <<FieldNode("f", StringRef, <<>>, fu)>>, <<>>),
           EnumDef("E", <<EnumValueNode("X", eu)>>)>> :
     ds \in DeprecatedDefs, fu \in DeprecatedUses, eu \in DeprecatedUses}

Docs ==
  PartitionDocs \cup RootDocs \cup FieldDocs \cup InputDocs \cup InterfaceDocs
  \cup UnionDocs \cup CycleDocs \cup DeprecationDocs

(***************************************************************************)
(* State of one call of buildASTSchema.                                    *)
(***************************************************************************)
VARIABLES
  ast,                      \* the argument
  pc,                       \* the statement the call is at
  i,                        \* index of the partition loop (1-based)
  schemaDef,                \* index of a schema block in the document, 0 if undefined
  errors,                   \* the diagnostics pushed so far
  typeDefs,                 \* indices of the canonical type definitions
  nodeMap,                  \* name -> index of its canonical definition, 0 if absent
  nodeMapWithAllReferences, \* <<name, indices>> entries in insertion order
  directiveDefs,            \* indices of the directive definitions
  queryTypeName, mutationTypeName, subscriptionTypeName,
  innerTypeMap,             \* name -> own property of innerTypeMap, Null if absent
  instances,                \* the named types constructed, in construction order
  types,                    \* the schema's type list
  directives,               \* the schema's directive list
  schema,                   \* the schema returned
  thrown                    \* the error the call failed with, "" if none

vars ==
  <<ast, pc, i, schemaDef, errors, typeDefs, nodeMap, nodeMapWithAllReferences,
    directiveDefs, queryTypeName, mutationTypeName, subscriptionTypeName,
    innerTypeMap, instances, types, directives, schema, thrown>>

NoError == ""

DocumentError == "Must provide a document ast."

TypeError == "TypeError: Cannot read property 'name' of undefined"

RangeError == "RangeError: Maximum call stack size exceeded"

InvariantError == "No nesting nonnull."

\* Location of the i-th definition of the document, and of its name node.
DefLoc(d) == [def |-> d]

NameLoc(d) == [nameOf |-> d]

newGQLError(message, name, nodes) ==
  [message |-> message, name |-> name, locations |-> nodes,
   severity |-> "error"]

(***************************************************************************)
(* Kinds of types (graphql/type/definition).                               *)
(***************************************************************************)
BuiltinKind(n) ==
  IF n \in {"String", "Int", "Float", "Boolean", "ID"} THEN "Scalar"
  ELSE IF n \in {"__TypeKind", "__DirectiveLocation"} THEN "Enum"
  ELSE "Object"

\* What each placeholder is an instance of.
PlaceholderKind(slot) ==
  CASE slot = "objectType" -> "Object"
    [] slot = "interfaceType" -> "Interface"
    [] OTHER -> "Scalar"

KindOf(t, insts) ==
  CASE t.k = "Instance" -> insts[t.id].kind
    [] t.k = "Builtin" -> BuiltinKind(t.name)
    [] t.k = "Placeholder" -> PlaceholderKind(t.slot)
    [] t.k = "List" -> "List"
    [] t.k = "NonNull" -> "NonNull"
    [] OTHER -> "None"

RECURSIVE getNamedType(_)
getNamedType(t) ==
  IF t.k \in {"List", "NonNull"} THEN getNamedType(t.ofType) ELSE t

isInputType(t, insts) ==
  KindOf(getNamedType(t), insts) \in {"Scalar", "Enum", "InputObject"}

isOutputType(t, insts) ==
  KindOf(getNamedType(t), insts)
    \in {"Scalar", "Object", "Interface", "Union", "Enum"}

InstanceOf(t, kind, insts) == KindOf(t, insts) = kind

(***************************************************************************)
(* buildWrappedType, lines 103-116.                                        *)
(***************************************************************************)
Throw(e) == [k |-> "Throw", error |-> e]

RECURSIVE buildWrappedType(_, _)

\* A plausible slip: the non-null modifier is dropped.
buildWrappedType_DropsNonNull(innerType, inputTypeAST) ==
  IF inputTypeAST.kind = "ListType"
  THEN GraphQLList(buildWrappedType(innerType, inputTypeAST.type))
  ELSE IF inputTypeAST.kind = "NonNullType"
  THEN buildWrappedType(innerType, inputTypeAST.type)
  ELSE innerType

buildWrappedType(innerType, inputTypeAST) ==
  IF inputTypeAST.kind = "ListType"
  THEN LET wrappedType == buildWrappedType(innerType, inputTypeAST.type)
       IN IF wrappedType.k = "Throw" THEN wrappedType
          ELSE GraphQLList(wrappedType)
  ELSE IF inputTypeAST.kind = "NonNullType"
  THEN LET wrappedType == buildWrappedType(innerType, inputTypeAST.type)
       IN IF wrappedType.k = "Throw" THEN wrappedType
          ELSE IF wrappedType.k = "NonNull" THEN Throw(InvariantError)
          ELSE GraphQLNonNull(wrappedType)
  ELSE innerType

RECURSIVE getNamedTypeNode(_)
\* ./getNamedTypeNode: the innermost named-type node of a type reference.
getNamedTypeNode(typeNode) ==
  IF typeNode.kind = "NamedType" THEN typeNode
  ELSE getNamedTypeNode(typeNode.type)

(***************************************************************************)
(* Deprecation, lines 507-520.                                             *)
(***************************************************************************)
NoReason == "null"

GraphQLSkipDirective ==
  [name |-> "skip", builtin |-> TRUE,
   args |-> [n \in {"if"} |->
              [type |-> GraphQLNonNull(Builtin("Boolean")),
               defaultValue |-> Undefined]]]

GraphQLIncludeDirective ==
  [name |-> "include", builtin |-> TRUE,
   args |-> [n \in {"if"} |->
              [type |-> GraphQLNonNull(Builtin("Boolean")),
               defaultValue |-> Undefined]]]

GraphQLDeprecatedDirective ==
  [name |-> "deprecated", builtin |-> TRUE,
   args |-> [n \in {"reason"} |->
              [type |-> Builtin("String"),
               defaultValue |-> DEFAULT_DEPRECATION_REASON]]]

SeqMax(S) == CHOOSE x \in S : \A y \in S : y <= x

SeqMin(S) == CHOOSE x \in S : \A y \in S : x <= y

\* graphql/execution/values getArgumentValues, for string-literal arguments:
\* the value of every argument the directive defines, from the node when the
\* node gives it and from the definition's default otherwise.
getArgumentValues(def, node) ==
  LET given(n) == {k \in DOMAIN node.arguments : node.arguments[k].name = n}
      names == {n \in DOMAIN def.args :
                  given(n) # {} \/ def.args[n].defaultValue # Undefined}
  IN [n \in names |->
        IF given(n) # {} THEN node.arguments[SeqMax(given(n))].value
        ELSE def.args[n].defaultValue]

\* The deprecation reason of a directive list, looked up against def.
ReasonAgainst(def, dirs) ==
  LET found == {k \in DOMAIN dirs : dirs[k].name = "deprecated"}
  IN IF found = {} THEN NoReason
     ELSE LET values == getArgumentValues(def, dirs[SeqMin(found)])
          IN IF "reason" \in DOMAIN values THEN values["reason"] ELSE Undefined

\* The document's own definition of @deprecated, if it has one.
DocumentDeprecated ==
  LET ds == {d \in DOMAIN ast.definitions :
               /\ ast.definitions[d].kind = "DirectiveDefinition"
               /\ ast.definitions[d].name = "deprecated"}
      arguments == ast.definitions[SeqMin(ds)].arguments
  IN IF ds = {} THEN GraphQLDeprecatedDirective
     ELSE [name |-> "deprecated", builtin |-> FALSE,
           args |-> [n \in {arguments[k].name : k \in DOMAIN arguments} |->
                       [defaultValue |->
                          arguments[SeqMax({k \in DOMAIN arguments :
                                              arguments[k].name = n})].defaultValue]]]

\* A plausible change: the lookup uses the document's own definition.
getDeprecationReason_UsesDocument(dirs) == ReasonAgainst(DocumentDeprecated, dirs)

getDeprecationReason(dirs) ==
  LET found == {k \in DOMAIN dirs : dirs[k].name = GraphQLDeprecatedDirective.name}
  IN IF found = {} THEN NoReason
     ELSE LET values == getArgumentValues(GraphQLDeprecatedDirective,
                                          dirs[SeqMin(found)])
          IN IF "reason" \in DOMAIN values THEN values["reason"] ELSE Undefined

(***************************************************************************)
(* The named-type registry and the builders, lines 269-504.  The closure's *)
(* mutable state is threaded through as st; every operator returns the new *)
(* st and its result.  depth counts the typeDefNamed activations on the    *)
(* call stack.                                                             *)
(***************************************************************************)
R(st, value) == [st |-> st, value |-> value]

PushError(st, e) == [st EXCEPT !.errors = Append(@, e)]

Fail(st, e) == [st EXCEPT !.thrown = e]

Unforced == [forced |-> FALSE, value |-> <<>>]

Forced(v) == [forced |-> TRUE, value |-> v]

NamedTypeInstance(kind, def, members, values) ==
  [name |-> ast.definitions[def].name, kind |-> kind, node |-> def,
   types |-> members, values |-> values, fields |-> Unforced,
   interfaces |-> Unforced]

\* new GraphQL...Type(config): the new instance is instances[Len + 1].
Construct(st, inst) ==
  R([st EXCEPT !.instances = Append(@, inst)],
    Instance(Len(st.instances) + 1))

\* innerTypeMap[typeName] as JavaScript evaluates it on an object literal.
InnerTypeMapGet(map, typeName) ==
  IF map[typeName].k # "Null" THEN map[typeName]
  ELSE IF typeName \in ObjectPrototypeNames THEN Inherited(typeName)
  ELSE Null

\* keyValMap over the enum's values.
EnumValues(def) ==
  LET values == ast.definitions[def].values
  IN [n \in {values[k].name : k \in DOMAIN values} |->
        LET v == values[SeqMax({k \in DOMAIN values : values[k].name = n})]
        IN [deprecationReason |-> getDeprecationReason(v.directives),
            node |-> v]]

RECURSIVE typeDefNamed(_, _, _, _)
RECURSIVE makeSchemaDef(_, _, _)
RECURSIVE UnionMembers(_, _, _, _, _)

\* Lines 309-312: the instance enters innerTypeMap once the builder returned it.
Remember(typeName, r) ==
  IF r.st.thrown # NoError THEN r
  ELSE R([r.st EXCEPT !.innerTypeMap[typeName] = r.value], r.value)

\* A plausible slip: the cache is not consulted for document types.
typeDefNamed_NoCacheHit(typeName, node, st, depth) ==
  IF depth >= MaxCallDepth THEN R(Fail(st, RangeError), Null)
  ELSE IF typeName \in BuiltinNames \cup ObjectPrototypeNames
  THEN R(st, InnerTypeMapGet(st.innerTypeMap, typeName))
  ELSE IF nodeMap[typeName] = 0
  THEN R(PushError(st, newGQLError("Type not found.", typeName, <<node>>)), Null)
  ELSE Remember(typeName, makeSchemaDef(nodeMap[typeName], st, depth + 1))

\* Lines 294-313.
typeDefNamed(typeName, node, st, depth) ==
  IF depth >= MaxCallDepth THEN R(Fail(st, RangeError), Null)
  ELSE IF InnerTypeMapGet(st.innerTypeMap, typeName).k # "Null"
  THEN R(st, InnerTypeMapGet(st.innerTypeMap, typeName))
  ELSE IF nodeMap[typeName] = 0
  THEN R(PushError(st, newGQLError("Type not found.", typeName, <<node>>)), Null)
  ELSE Remember(typeName, makeSchemaDef(nodeMap[typeName], st, depth + 1))

\* Line 323 on the wrapped type.
Wrapped(st, wrapped) ==
  IF wrapped.k = "Throw" THEN R(Fail(st, wrapped.error), Null)
  ELSE R(st, wrapped)

\* Lines 322-323 on what typeDefNamed returned.
OrDefault(typeNode, defaultValue, r) ==
  IF r.st.thrown # NoError THEN r
  ELSE Wrapped(r.st,
         buildWrappedType(IF r.value.k = "Null" THEN defaultValue ELSE r.value,
                          typeNode))

\* Lines 319-324.
produceType(typeNode, defaultValue, st, depth) ==
  OrDefault(typeNode, defaultValue,
            typeDefNamed(getNamedTypeNode(typeNode).name,
                         getNamedTypeNode(typeNode), st, depth))

Expected(r, message, typeNode) ==
  R(PushError(r.st, newGQLError(message, "", <<getNamedTypeNode(typeNode)>>)),
    r.value)

ExpectInput(typeNode, r) ==
  IF r.st.thrown # NoError \/ isInputType(r.value, r.st.instances) THEN r
  ELSE Expected(r, "Expected Input type.", typeNode)

ExpectOutput(typeNode, r) ==
  IF r.st.thrown # NoError \/ isOutputType(r.value, r.st.instances) THEN r
  ELSE Expected(r, "Expected Output type.", typeNode)

ExpectObject(typeNode, r) ==
  IF r.st.thrown # NoError \/ InstanceOf(r.value, "Object", r.st.instances)
  THEN r
  ELSE Expected(r, "Expected Object type.", typeNode)

ExpectInterface(typeNode, r) ==
  IF r.st.thrown # NoError \/ InstanceOf(r.value, "Interface", r.st.instances)
  THEN r
  ELSE Expected(r, "Expected Interface type.", typeNode)

\* Lines 326-336.
produceInputType(typeNode, st, depth) ==
  ExpectInput(typeNode,
              produceType(typeNode, PLACEHOLDER_TYPES("inputType"), st, depth))

\* Lines 338-348.
produceOutputType(typeNode, st, depth) ==
  ExpectOutput(typeNode,
               produceType(typeNode, PLACEHOLDER_TYPES("outputType"), st, depth))

\* Lines 350-360.
produceObjectType(typeNode, st, depth) ==
  ExpectObject(typeNode,
               produceType(typeNode, PLACEHOLDER_TYPES("objectType"), st, depth))

\* Lines 362-372.
produceInterfaceType(typeNode, st, depth) ==
  ExpectInterface(typeNode,
                  produceType(typeNode, PLACEHOLDER_TYPES("interfaceType"), st,
                              depth))

\* The rest of def.types.map(...) once member k resolved to r.
AfterMember(members, k, acc, depth, r) ==
  IF r.st.thrown # NoError THEN R(r.st, acc)
  ELSE UnionMembers(members, k + 1, Append(acc, r.value), r.st, depth)

\* def.types.map(t => produceObjectType(t)) from member k on, line 477.
UnionMembers(members, k, acc, st, depth) ==
  IF k > Len(members) THEN R(st, acc)
  ELSE AfterMember(members, k, acc, depth,
                   produceObjectType(members[k], st, depth))

ConstructUnion(def, r) ==
  IF r.st.thrown # NoError THEN R(r.st, Null)
  ELSE Construct(r.st, NamedTypeInstance("Union", def, r.value, <<>>))

\* Lines 472-480: the member list is resolved before the union exists.
makeUnionDef(def, st, depth) ==
  ConstructUnion(def, UnionMembers(ast.definitions[def].types, 1, <<>>, st, depth))

\* Lines 374-394 and the eager part of each builder.
makeSchemaDef(def, st, depth) ==
  CASE ast.definitions[def].kind = "ObjectTypeDefinition" ->
         Construct(st, NamedTypeInstance("Object", def, <<>>, <<>>))
    [] ast.definitions[def].kind = "InterfaceTypeDefinition" ->
         Construct(st, NamedTypeInstance("Interface", def, <<>>, <<>>))
    [] ast.definitions[def].kind = "EnumTypeDefinition" ->
         Construct(st, NamedTypeInstance("Enum", def, <<>>, EnumValues(def)))
    [] ast.definitions[def].kind = "UnionTypeDefinition" ->
         makeUnionDef(def, st, depth)
    [] ast.definitions[def].kind = "ScalarTypeDefinition" ->
         Construct(st, NamedTypeInstance("Scalar", def, <<>>, <<>>))
    [] ast.definitions[def].kind = "InputObjectTypeDefinition" ->
         Construct(st, NamedTypeInstance("InputObject", def, <<>>, <<>>))

(***************************************************************************)
(* Field maps, input values, implemented interfaces, directives.           *)
(***************************************************************************)
\* keyValMap: a later entry with the same key replaces the earlier one.
Put(map, key, value) ==
  [x \in DOMAIN map \cup {key} |-> IF x = key THEN value ELSE map[x]]

\* graphql/utilities/valueFromAST on an absent or string-literal value node.
valueFromAST(valueNode, type) ==
  IF valueNode = Undefined THEN Undefined
  ELSE IF getNamedType(type).k = "Builtin"
          /\ getNamedType(type).name \in {"String", "ID"}
  THEN valueNode
  ELSE Undefined

RECURSIVE InputValues(_, _, _, _)

AfterInputValue(values, k, acc, r) ==
  IF r.st.thrown # NoError THEN R(r.st, acc)
  ELSE InputValues(values, k + 1,
         Put(acc, values[k].name,
             [type |-> r.value, node |-> values[k],
              defaultValue |-> valueFromAST(values[k].defaultValue, r.value)]),
         r.st)

InputValues(values, k, acc, st) ==
  IF k > Len(values) THEN R(st, acc)
  ELSE AfterInputValue(values, k, acc, produceInputType(values[k].type, st, 0))

\* Lines 427-441.
makeInputValues(values, st) == InputValues(values, 1, <<>>, st)

RECURSIVE FieldDefs(_, _, _, _)

AfterFieldArgs(fields, k, acc, type, a) ==
  IF a.st.thrown # NoError THEN R(a.st, acc)
  ELSE FieldDefs(fields, k + 1,
         Put(acc, fields[k].name,
             [type |-> type, node |-> fields[k], args |-> a.value,
              deprecationReason |-> getDeprecationReason(fields[k].directives)]),
         a.st)

AfterFieldType(fields, k, acc, t) ==
  IF t.st.thrown # NoError THEN R(t.st, acc)
  ELSE AfterFieldArgs(fields, k, acc, t.value,
                      makeInputValues(fields[k].arguments, t.st))

FieldDefs(fields, k, acc, st) ==
  IF k > Len(fields) THEN R(st, acc)
  ELSE AfterFieldType(fields, k, acc, produceOutputType(fields[k].type, st, 0))

\* Lines 407-421.
makeFieldDefMap(def, st) == FieldDefs(ast.definitions[def].fields, 1, <<>>, st)

RECURSIVE Interfaces(_, _, _, _)

AfterInterface(ifaces, k, acc, r) ==
  IF r.st.thrown # NoError THEN R(r.st, acc)
  ELSE Interfaces(ifaces, k + 1, Append(acc, r.value), r.st)

Interfaces(ifaces, k, acc, st) ==
  IF k > Len(ifaces) THEN R(st, acc)
  ELSE AfterInterface(ifaces, k, acc, produceInterfaceType(ifaces[k], st, 0))

\* Lines 423-425.
makeImplementedInterfaces(def, st) ==
  Interfaces(ast.definitions[def].interfaces, 1, <<>>, st)

DirectiveOf(def, r) ==
  R(r.st, [name |-> ast.definitions[def].name, builtin |-> FALSE,
           args |-> r.value])

\* Lines 269-278.
getDirective(def, st) ==
  DirectiveOf(def, makeInputValues(ast.definitions[def].arguments, st))

RECURSIVE Directives(_, _, _, _)

AfterDirective(defs, k, acc, r) ==
  IF r.st.thrown # NoError THEN R(r.st, acc)
  ELSE Directives(defs, k + 1, Append(acc, r.value), r.st)

\* directiveDefs.map(getDirective) from definition k on, line 243.
Directives(defs, k, acc, st) ==
  IF k > Len(defs) THEN R(st, acc)
  ELSE AfterDirective(defs, k, acc, getDirective(defs[k], st))

\* Lines 245-256: a built-in directive is added unless one of its name exists.
WithDefault(list, directive) ==
  IF \E k \in DOMAIN list : list[k].name = directive.name THEN list
  ELSE Append(list, directive)

RECURSIVE NamedTypes(_, _, _, _)

AfterNamedType(defs, k, acc, r) ==
  IF r.st.thrown # NoError THEN R(r.st, acc)
  ELSE NamedTypes(defs, k + 1,
                  IF r.value.k = "Null" THEN acc ELSE Append(acc, r.value), r.st)

\* typeDefs.map(def => typeDefNamed(def.name.value, def)).filter(Boolean)
NamedTypes(defs, k, acc, st) ==
  IF k > Len(defs) THEN R(st, acc)
  ELSE AfterNamedType(defs, k, acc,
         typeDefNamed(ast.definitions[defs[k]].name, DefLoc(defs[k]), st, 0))

MustBeObject(typeName, r) ==
  IF r.st.thrown # NoError \/ InstanceOf(r.value, "Object", r.st.instances)
  THEN r
  ELSE R(PushError(r.st, newGQLError("AST must provide object type.", "",
                                     <<DefLoc(nodeMap[typeName])>>)),
         r.value)

\* getObjectType(nodeMap[typeName]), lines 280-292; nodeMap[typeName] may be
\* undefined, and reading its name then fails.
getObjectType(typeName, st) ==
  IF nodeMap[typeName] = 0 THEN R(Fail(st, TypeError), Null)
  ELSE MustBeObject(typeName,
         typeDefNamed(typeName, PLACEHOLDER_TYPES("objectType"), st, 0))

\* typeName ? getObjectType(nodeMap[typeName]) : null
RootType(typeName, st) ==
  IF typeName = Undefined THEN R(st, Null) ELSE getObjectType(typeName, st)

AddRoot(roots, r) == R(r.st, Append(roots, r.value))

\* Lines 259-261: one more root after the roots of r.
WithRoot(typeName, r) ==
  IF r.st.thrown # NoError THEN r
  ELSE AddRoot(r.value, RootType(typeName, r.st))

(***************************************************************************)
(* buildASTSchema, lines 118-267.                                          *)
(***************************************************************************)
EmptyInnerTypeMap ==
  [n \in AllNames |-> IF n \in BuiltinNames THEN Builtin(n) ELSE Null]

Init ==
  /\ ast \in {[kind |-> "Document", definitions |-> d] : d \in Docs}
             \cup {[kind |-> "Field", definitions |-> <<>>]}
  /\ pc = "start"
  /\ i = 1
  /\ schemaDef = 0
  /\ errors = <<>>
  /\ typeDefs = <<>>
  /\ nodeMap = [n \in AllNames |-> 0]
  /\ nodeMapWithAllReferences = <<>>
  /\ directiveDefs = <<>>
  /\ queryTypeName = Undefined
  /\ mutationTypeName = Undefined
  /\ subscriptionTypeName = Undefined
  /\ innerTypeMap = EmptyInnerTypeMap
  /\ instances = <<>>
  /\ types = <<>>
  /\ directives = <<>>
  /\ schema = Null
  /\ thrown = NoError

\* Lines 121-123.
CheckDocument ==
  /\ pc = "start"
  /\ IF ast.kind # "Document"
     THEN pc' = "thrown" /\ thrown' = DocumentError
     ELSE pc' = "partition" /\ thrown' = thrown
  /\ UNCHANGED <<ast, i, schemaDef, errors, typeDefs, nodeMap,
                 nodeMapWithAllReferences, directiveDefs, queryTypeName,
                 mutationTypeName, subscriptionTypeName, innerTypeMap,
                 instances, types, directives, schema>>

\* Lines 137-143.
SchemaDefinitionErrors(errs, current, d) ==
  IF current # 0
  THEN Append(errs, newGQLError("Must provide only one schema definition.", "",
                                <<DefLoc(current), DefLoc(d)>>))
  ELSE errs

\* A plausible change: later blocks are compared against the first one seen.
NextSchemaDef_KeepsFirst(current, d) == IF current # 0 THEN current ELSE d

\* Line 144.
NextSchemaDef(current, d) == d

\* A plausible slip: a later definition of a name replaces the earlier one.
RegisterNode_LastWins(map, name, d) == [map EXCEPT ![name] = d]

\* Lines 153-156, nodeMap.
RegisterNode(map, name, d) ==
  IF map[name] = 0 THEN [map EXCEPT ![name] = d] ELSE map

\* Lines 153-156, typeDefs.
RegisterTypeDef(defs, map, d) ==
  IF map[ast.definitions[d].name] = 0 THEN Append(defs, d) ELSE defs

\* Lines 158-159.
AddReference(refs, name, d) ==
  IF \E k \in DOMAIN refs : refs[k].name = name
  THEN [k \in DOMAIN refs |->
          IF refs[k].name = name
          THEN [refs[k] EXCEPT !.nodes = Append(@, d)] ELSE refs[k]]
  ELSE Append(refs, [name |-> name, nodes |-> <<d>>])

\* One iteration of the loop of lines 133-167.
PartitionStep ==
  /\ pc = "partition"
  /\ i <= Len(ast.definitions)
  /\ LET d == ast.definitions[i]
     IN /\ schemaDef' = IF d.kind = "SchemaDefinition"
                        THEN NextSchemaDef(schemaDef, i) ELSE schemaDef
        /\ errors' = IF d.kind = "SchemaDefinition"
                     THEN SchemaDefinitionErrors(errors, schemaDef, i)
                     ELSE errors
        /\ typeDefs' = IF d.kind \in TypeDefinitionKinds
                       THEN RegisterTypeDef(typeDefs, nodeMap, i) ELSE typeDefs
        /\ nodeMap' = IF d.kind \in TypeDefinitionKinds
                      THEN RegisterNode(nodeMap, d.name, i) ELSE nodeMap
        /\ nodeMapWithAllReferences' =
             IF d.kind \in TypeDefinitionKinds
             THEN AddReference(nodeMapWithAllReferences, d.name, i)
             ELSE nodeMapWithAllReferences
        /\ directiveDefs' = IF d.kind = "DirectiveDefinition"
                            THEN Append(directiveDefs, i) ELSE directiveDefs
  /\ i' = i + 1
  /\ UNCHANGED <<ast, pc, queryTypeName, mutationTypeName,
                 subscriptionTypeName, innerTypeMap, instances, types,
                 directives, schema, thrown>>

DuplicateError(ref) ==
  newGQLError("Schema must contain unique named types but contains multiple types named.",
              ref.name, [k \in DOMAIN ref.nodes |-> NameLoc(ref.nodes[k])])

\* A plausible slip: only names defined more than twice are reported.
DuplicateErrors_MoreThanTwo(refs) ==
  LET many == SelectSeq(refs, LAMBDA ref : Len(ref.nodes) > 2)
  IN [k \in DOMAIN many |-> DuplicateError(many[k])]

\* Lines 170-178: Object.keys enumerates the names in insertion order.
DuplicateErrors(refs) ==
  LET many == SelectSeq(refs, LAMBDA ref : Len(ref.nodes) > 1)
  IN [k \in DOMAIN many |-> DuplicateError(many[k])]

\* The loop ends; lines 170-178.
ReportDuplicates ==
  /\ pc = "partition"
  /\ i > Len(ast.definitions)
  /\ errors' = errors \o DuplicateErrors(nodeMapWithAllReferences)
  /\ pc' = "roots"
  /\ UNCHANGED <<ast, i, schemaDef, typeDefs, nodeMap,
                 nodeMapWithAllReferences, directiveDefs, queryTypeName,
                 mutationTypeName, subscriptionTypeName, innerTypeMap,
                 instances, types, directives, schema, thrown>>

RECURSIVE DeclaredRoot(_, _, _, _)
\* schemaDef.operationTypes.forEach(...), lines 185-194, for one operation.
DeclaredRoot(operationTypes, k, operation, name) ==
  IF k > Len(operationTypes) THEN name
  ELSE DeclaredRoot(operationTypes, k + 1, operation,
         IF operationTypes[k].operation = operation
         THEN operationTypes[k].type.name ELSE name)

\* A plausible slip: an operation the schema block omits falls back to the
\* conventionally named type.
RootName_FallsBack(block, map, operation, conventional) ==
  LET declared == IF block = 0 THEN Undefined
                  ELSE DeclaredRoot(ast.definitions[block].operationTypes, 1,
                                    operation, Undefined)
  IN IF declared # Undefined THEN declared
     ELSE IF map[conventional] # 0 THEN conventional ELSE Undefined

\* Lines 184-205 for one operation.
RootName(block, map, operation, conventional) ==
  IF block # 0
  THEN DeclaredRoot(ast.definitions[block].operationTypes, 1, operation, Undefined)
  ELSE IF map[conventional] # 0 THEN conventional ELSE Undefined

\* Lines 180-213.
ResolveRoots ==
  /\ pc = "roots"
  /\ queryTypeName' = RootName(schemaDef, nodeMap, "query", "Query")
  /\ mutationTypeName' = RootName(schemaDef, nodeMap, "mutation", "Mutation")
  /\ subscriptionTypeName' =
       RootName(schemaDef, nodeMap, "subscription", "Subscription")
  /\ errors' =
       IF queryTypeName' = Undefined
       THEN Append(errors,
              newGQLError("Must provide schema definition with query type or a type named Query.",
                          "", <<>>))
       ELSE errors
  /\ pc' = "types"
  /\ UNCHANGED <<ast, i, schemaDef, typeDefs, nodeMap,
                 nodeMapWithAllReferences, directiveDefs, innerTypeMap,
                 instances, types, directives, schema, thrown>>

Closure == [innerTypeMap |-> innerTypeMap, instances |-> instances,
            errors |-> errors, thrown |-> NoError]

\* The closure's state after a step that ended in st.
Continue(st, next) ==
  /\ innerTypeMap' = st.innerTypeMap
  /\ instances' = st.instances
  /\ errors' = st.errors
  /\ thrown' = st.thrown
  /\ pc' = IF st.thrown # NoError THEN "thrown" ELSE next

TypesBuilt(r) ==
  /\ Continue(r.st, "directives")
  /\ types' = IF r.st.thrown # NoError THEN types
              ELSE r.value \o <<Builtin("String"), Builtin("Int"),
                                Builtin("Float"), Builtin("Boolean"),
                                Builtin("ID")>>

\* Lines 215-240.
BuildTypes ==
  /\ pc = "types"
  /\ TypesBuilt(NamedTypes(typeDefs, 1, <<>>, Closure))
  /\ UNCHANGED <<ast, i, schemaDef, typeDefs, nodeMap,
                 nodeMapWithAllReferences, directiveDefs, queryTypeName,
                 mutationTypeName, subscriptionTypeName, directives, schema>>

DirectivesBuilt(r) ==
  /\ Continue(r.st, "schema")
  /\ directives' =
       IF r.st.thrown # NoError THEN directives
       ELSE WithDefault(WithDefault(WithDefault(r.value,
              GraphQLSkipDirective), GraphQLIncludeDirective),
              GraphQLDeprecatedDirective)

\* Lines 243-256.
BuildDirectives ==
  /\ pc = "directives"
  /\ DirectivesBuilt(Directives(directiveDefs, 1, <<>>, Closure))
  /\ UNCHANGED <<ast, i, schemaDef, typeDefs, nodeMap,
                 nodeMapWithAllReferences, directiveDefs, queryTypeName,
                 mutationTypeName, subscriptionTypeName, types, schema>>

\* new GraphQLSchema({...}) and the return statement; the diagnostics returned
\* are those pushed so far.
SchemaBuilt(r) ==
  /\ Continue(r.st, "done")
  /\ schema' =
       IF r.st.thrown # NoError THEN schema
       ELSE [k |-> "Schema", query |-> r.value[1], mutation |-> r.value[2],
             subscription |-> r.value[3], types |-> types,
             directives |-> directives, errors |-> r.st.errors]

\* Lines 258-267.
BuildSchema ==
  /\ pc = "schema"
  /\ SchemaBuilt(WithRoot(subscriptionTypeName,
                   WithRoot(mutationTypeName,
                     WithRoot(queryTypeName, R(Closure, <<>>)))))
  /\ UNCHANGED <<ast, i, schemaDef, typeDefs, nodeMap,
                 nodeMapWithAllReferences, directiveDefs, queryTypeName,
                 mutationTypeName, subscriptionTypeName, types, directives>>

\* The fields thunk of lines 402, 449 and 502.
FieldsThunk(id, st) ==
  IF st.instances[id].kind = "InputObject"
  THEN makeInputValues(ast.definitions[st.instances[id].node].fields, st)
  ELSE makeFieldDefMap(st.instances[id].node, st)

\* A thunk that threw leaves the type unforced; one that returned is memoized.
FieldsForced(id, r) ==
  /\ innerTypeMap' = r.st.innerTypeMap
  /\ errors' = r.st.errors
  /\ thrown' = r.st.thrown
  /\ pc' = IF r.st.thrown # NoError THEN "thrown" ELSE pc
  /\ instances' = IF r.st.thrown # NoError THEN r.st.instances
                  ELSE [r.st.instances EXCEPT ![id].fields = Forced(r.value)]

\* First access to the fields of a built type.
ForceFields(id) ==
  /\ pc = "done"
  /\ instances[id].kind \in {"Object", "Interface", "InputObject"}
  /\ ~instances[id].fields.forced
  /\ FieldsForced(id, FieldsThunk(id, Closure))
  /\ UNCHANGED <<ast, i, schemaDef, typeDefs, nodeMap,
                 nodeMapWithAllReferences, directiveDefs, queryTypeName,
                 mutationTypeName, subscriptionTypeName, types, directives,
                 schema>>

InterfacesForced(id, r) ==
  /\ innerTypeMap' = r.st.innerTypeMap
  /\ errors' = r.st.errors
  /\ thrown' = r.st.thrown
  /\ pc' = IF r.st.thrown # NoError THEN "thrown" ELSE pc
  /\ instances' = IF r.st.thrown # NoError THEN r.st.instances
                  ELSE [r.st.instances EXCEPT ![id].interfaces = Forced(r.value)]

\* First access to the interfaces of a built object type, line 403.
ForceInterfaces(id) ==
  /\ pc = "done"
  /\ instances[id].kind = "Object"
  /\ ~instances[id].interfaces.forced
  /\ InterfacesForced(id, makeImplementedInterfaces(instances[id].node, Closure))
  /\ UNCHANGED <<ast, i, schemaDef, typeDefs, nodeMap,
                 nodeMapWithAllReferences, directiveDefs, queryTypeName,
                 mutationTypeName, subscriptionTypeName, types, directives,
                 schema>>

Next ==
  \/ CheckDocument
  \/ PartitionStep
  \/ ReportDuplicates
  \/ ResolveRoots
  \/ BuildTypes
  \/ BuildDirectives
  \/ BuildSchema
  \/ \E id \in DOMAIN instances : ForceFields(id)
  \/ \E id \in DOMAIN instances : ForceInterfaces(id)

Spec == Init /\ [][Next]_vars

(***************************************************************************)
(* What the properties below speak about.                                  *)
(***************************************************************************)
Defs == ast.definitions

\* The definitions of type name n, as indices into the document.
Occurrences(n) ==
  {d \in DOMAIN Defs : Defs[d].kind \in TypeDefinitionKinds /\ Defs[d].name = n}

SchemaBlocks == {d \in DOMAIN Defs : Defs[d].kind = "SchemaDefinition"}

RECURSIVE Ascending(_)
Ascending(S) ==
  IF S = {} THEN <<>> ELSE <<SeqMin(S)>> \o Ascending(S \ {SeqMin(S)})

\* The partition loop and the duplicate report are over.
Partitioned ==
  pc \in {"roots", "types", "directives", "schema", "done"}
  \/ (pc = "thrown" /\ thrown # DocumentError)

\* The root names are assigned.
RootsResolved ==
  pc \in {"types", "directives", "schema", "done"}
  \/ (pc = "thrown" /\ thrown # DocumentError)

ErrorsWith(message) == SelectSeq(errors, LAMBDA e : e.message = message)

\* Every type reference resolved so far that is still held by a built type or
\* directive: the reference, what it resolved to, and the placeholder slot of
\* its position.
Resolution(ref, type, slot) == [ref |-> ref, type |-> type, slot |-> slot]

FieldResolutions(v) ==
  {Resolution(v[f].node.type, v[f].type, "outputType") : f \in DOMAIN v}
  \cup UNION {{Resolution(v[f].args[a].node.type, v[f].args[a].type, "inputType") :
                 a \in DOMAIN v[f].args} : f \in DOMAIN v}

InputResolutions(v) ==
  {Resolution(v[f].node.type, v[f].type, "inputType") : f \in DOMAIN v}

InstanceResolutions(x) ==
  (IF x.fields.forced
   THEN IF x.kind = "InputObject" THEN InputResolutions(x.fields.value)
        ELSE FieldResolutions(x.fields.value)
   ELSE {})
  \cup (IF x.interfaces.forced
        THEN {Resolution(Defs[x.node].interfaces[k], x.interfaces.value[k],
                         "interfaceType") : k \in DOMAIN x.interfaces.value}
        ELSE {})
  \cup {Resolution(Defs[x.node].types[k], x.types[k], "objectType") :
          k \in DOMAIN x.types}

Resolutions ==
  UNION {InstanceResolutions(instances[x]) : x \in DOMAIN instances}
  \cup UNION {IF directives[d].builtin THEN {}
              ELSE InputResolutions(directives[d].args) : d \in DOMAIN directives}

RECURSIVE Modifiers(_)
\* The modifiers of a type from the outside in.
Modifiers(t) ==
  IF t.k \in {"List", "NonNull"} THEN <<t.k>> \o Modifiers(t.ofType) ELSE <<>>

RECURSIVE NodeModifiers(_)
\* The modifiers of a type reference from the outside in.
NodeModifiers(node) ==
  IF node.kind = "ListType" THEN <<"List">> \o NodeModifiers(node.type)
  ELSE IF node.kind = "NonNullType" THEN <<"NonNull">> \o NodeModifiers(node.type)
  ELSE <<>>

\* A non-null modifier directly around a non-null modifier.
NestsNonNull(node) ==
  \E k \in 1..(Len(NodeModifiers(node)) - 1) :
    NodeModifiers(node)[k] = "NonNull" /\ NodeModifiers(node)[k + 1] = "NonNull"

RefName(ref) == getNamedTypeNode(ref).name

\* The type references of the definition a built type comes from.
NodeRefs(def) ==
  {Defs[def].fields[k].type : k \in DOMAIN Defs[def].fields}
  \cup UNION {{Defs[def].fields[k].arguments[a].type :
                 a \in DOMAIN Defs[def].fields[k].arguments} :
              k \in DOMAIN Defs[def].fields}

(***************************************************************************)
(* Properties.                                                             *)
(***************************************************************************)

\* C1: a root operation type that the schema block names but no definition
\* declares is recorded as a diagnostic; the build of a document never fails
\* on reading the absent definition, it returns a schema.
C1_RootProblemsAreDiagnostics == thrown # TypeError

\* C2: every build terminates whatever cycles the definitions contain: the
\* resolution of a name is never re-entered without bound, so the call stack
\* is never exhausted.
C2_ResolutionTerminates == thrown # RangeError

\* C3: at most one named type is ever constructed per type name, and every
\* reference to a name resolved so far (type list, roots, union members,
\* forced fields, arguments and interfaces) is the one instance the registry
\* holds for that name.
C3_OneInstancePerName ==
  /\ \A a, b \in DOMAIN instances :
       instances[a].name = instances[b].name => a = b
  /\ \A r \in Resolutions :
       getNamedType(r.type).k = "Instance" =>
         /\ instances[getNamedType(r.type).id].name = RefName(r.ref)
         /\ innerTypeMap[RefName(r.ref)] = getNamedType(r.type)
  /\ \A k \in DOMAIN types :
       types[k].k = "Instance" => innerTypeMap[instances[types[k].id].name] = types[k]
  /\ pc = "done" =>
       \A root \in {schema.query, schema.mutation, schema.subscription} :
         root.k = "Instance" => innerTypeMap[instances[root.id].name] = root

\* C3 witness: A { b: B } and B { a: A } are built and both field maps are
\* forced; the B in A.b is the B of the type list, whose a is the A of the list.
C3_MutualRecursionResolved ==
  /\ pc = "done"
  /\ \E a, b \in DOMAIN instances :
       /\ instances[a].name = "A" /\ instances[b].name = "B"
       /\ instances[a].fields.forced /\ instances[b].fields.forced
       /\ instances[a].fields.value["b"].type = Instance(b)
       /\ instances[b].fields.value["a"].type = Instance(a)
       /\ \E k \in DOMAIN types : types[k] = Instance(b)

\* C4: a reference whose innermost name is neither a built-in nor defined in
\* the document resolves to the placeholder of its position inside the
\* reference's modifiers, and a "not found" diagnostic names it.
C4_UnknownNamesBecomePlaceholders ==
  \A r \in Resolutions :
    (RefName(r.ref) \notin BuiltinNames /\ Occurrences(RefName(r.ref)) = {}) =>
      /\ getNamedType(r.type) = PLACEHOLDER_TYPES(r.slot)
      /\ \E k \in DOMAIN errors :
           /\ errors[k].message = "Type not found."
           /\ errors[k].name = RefName(r.ref)

\* C5: with a schema block the root name of each operation is the name the
\* block it ends up with declares for it (the last declaration, the last
\* block), absent when it declares none, whatever types are defined; with no
\* schema block it is the conventional name iff a type of that name is defined.
ExpectedRoot(operation, conventional) ==
  IF SchemaBlocks # {}
  THEN LET ops == Defs[SeqMax(SchemaBlocks)].operationTypes
           declared == {k \in DOMAIN ops : ops[k].operation = operation}
       IN IF declared = {} THEN Undefined ELSE ops[SeqMax(declared)].type.name
  ELSE IF Occurrences(conventional) # {} THEN conventional ELSE Undefined

C5_RootNames ==
  RootsResolved =>
    /\ queryTypeName = ExpectedRoot("query", "Query")
    /\ mutationTypeName = ExpectedRoot("mutation", "Mutation")
    /\ subscriptionTypeName = ExpectedRoot("subscription", "Subscription")

\* C5 witness: the schema block declares only a mutation root while a type
\* named Query is defined: no query root, the declared mutation root.
C5_BlockOverridesConvention ==
  /\ RootsResolved
  /\ SchemaBlocks # {}
  /\ Occurrences("Query") # {}
  /\ queryTypeName = Undefined
  /\ mutationTypeName = "A"
  /\ subscriptionTypeName = Undefined

DuplicateMessage ==
  "Schema must contain unique named types but contains multiple types named."

\* C6: a name defined k >= 2 times gets exactly one duplicate-name diagnostic,
\* which references its k occurrences in document order; a name defined once
\* gets none; and the definition registered for the name, from which its
\* named type is built, is its first occurrence.
C6_DuplicateNames ==
  Partitioned =>
    \A n \in AllNames :
      LET occ == Occurrences(n)
          dups == {k \in DOMAIN errors :
                     errors[k].message = DuplicateMessage /\ errors[k].name = n}
      IN /\ Cardinality(dups) = IF Cardinality(occ) >= 2 THEN 1 ELSE 0
         /\ \A k \in dups :
              errors[k].locations =
                [j \in 1..Cardinality(occ) |-> NameLoc(Ascending(occ)[j])]
         /\ nodeMap[n] = IF occ = {} THEN 0 ELSE SeqMin(occ)
         /\ Cardinality({k \in DOMAIN typeDefs : Defs[typeDefs[k]].name = n})
              = IF occ = {} THEN 0 ELSE 1
         /\ \A x \in DOMAIN instances :
              instances[x].name = n => instances[x].node = SeqMin(occ)

\* C6 witness: A is defined three times, first as an object type; the build
\* returned, one diagnostic names A, and the A built is the object type.
C6_TripleDefinition ==
  /\ pc = "done"
  /\ Cardinality(Occurrences("A")) = 3
  /\ Len(ErrorsWith(DuplicateMessage)) = 1
  /\ Len(ErrorsWith(DuplicateMessage)[1].locations) = 3
  /\ \E x \in DOMAIN instances :
       /\ instances[x].name = "A"
       /\ instances[x].kind = "Object"
       /\ instances[x].node = 1
       /\ Defs[3].kind = "ScalarTypeDefinition"

\* The fields and enum values built so far that carry directives: the
\* directive list and the deprecation reason computed for it.
Deprecations ==
  UNION {IF instances[x].kind \in {"Object", "Interface"} /\ instances[x].fields.forced
         THEN {[dirs |-> instances[x].fields.value[f].node.directives,
                reason |-> instances[x].fields.value[f].deprecationReason] :
                 f \in DOMAIN instances[x].fields.value}
         ELSE {[dirs |-> instances[x].values[v].node.directives,
                reason |-> instances[x].values[v].deprecationReason] :
                 v \in DOMAIN instances[x].values} : x \in DOMAIN instances}

\* The directive named "deprecated" of the schema's directive set.
SchemaDeprecated ==
  directives[SeqMin({k \in DOMAIN directives : directives[k].name = "deprecated"})]

\* C7 as stated: once the build returned, every deprecation reason is the one
\* looked up against the "deprecated" directive of the schema's directive set:
\* the document's own definition when it has one, the built-in otherwise.
C7_ReasonAgainstSchemaDirective ==
  pc = "done" =>
    \A d \in Deprecations : d.reason = ReasonAgainst(SchemaDeprecated, d.dirs)

\* The first @deprecated of a directive list.
FirstDeprecated(dirs) ==
  dirs[SeqMin({k \in DOMAIN dirs : dirs[k].name = "deprecated"})]

\* C7 as amended: every deprecation reason is looked up against the built-in
\* deprecated directive, whatever the document defines: none without
\* @deprecated, else the last "reason" argument of the first @deprecated, else
\* the built-in default reason.
C7_ReasonAgainstBuiltin ==
  \A d \in Deprecations :
    d.reason =
      IF \A k \in DOMAIN d.dirs : d.dirs[k].name # "deprecated" THEN NoReason
      ELSE LET arguments == FirstDeprecated(d.dirs).arguments
               reasons == {k \in DOMAIN arguments : arguments[k].name = "reason"}
           IN IF reasons = {} THEN DEFAULT_DEPRECATION_REASON
              ELSE arguments[SeqMax(reasons)].value

\* C7 witness: the document defines @deprecated(why: String); the field
\* f @deprecated(why: "w1") is built with the built-in default reason.
C7_OwnDirectiveIgnored ==
  /\ pc = "done"
  /\ ~SchemaDeprecated.builtin
  /\ DOMAIN SchemaDeprecated.args = {"why"}
  /\ \E x \in DOMAIN instances :
       /\ instances[x].kind = "Object"
       /\ instances[x].fields.forced
       /\ "f" \in DOMAIN instances[x].fields.value
       /\ Len(instances[x].fields.value["f"].node.directives) = 1
       /\ instances[x].fields.value["f"].node.directives[1].arguments
            = <<ArgumentNode("why", "w1")>>
       /\ instances[x].fields.value["f"].deprecationReason
            = DEFAULT_DEPRECATION_REASON

\* The inner type that the name of a reference resolves to.
ResolvesName(type, name, slot) ==
  CASE type.k = "Instance" -> instances[type.id].name = name
    [] type.k = "Builtin" -> type.name = name
    [] type.k = "Inherited" -> type.name = name
    [] type.k = "Placeholder" -> type.slot = slot
    [] OTHER -> FALSE

\* C8: every resolved reference has exactly the modifiers of the reference, in
\* the same order, around the type its name resolves to (or the placeholder);
\* a reference with a non-null directly inside a non-null is never resolved:
\* the build fails on it, and it fails this way on such a reference only.
C8_WrapperRoundTrip ==
  /\ \A r \in Resolutions :
       /\ Modifiers(r.type) = NodeModifiers(r.ref)
       /\ ResolvesName(getNamedType(r.type), RefName(r.ref), r.slot)
       /\ ~NestsNonNull(r.ref)
  /\ \A x \in DOMAIN instances :
       (instances[x].kind \in {"Object", "Interface"} /\ instances[x].fields.forced)
         => \A ref \in NodeRefs(instances[x].node) : ~NestsNonNull(ref)
  /\ thrown = InvariantError =>
       \E d \in DOMAIN Defs :
         /\ Defs[d].kind \in {"ObjectTypeDefinition", "InterfaceTypeDefinition"}
         /\ \E ref \in NodeRefs(d) : NestsNonNull(ref)

\* C8 witness: a field declared [[T]!]! style with three modifiers, the
\* outermost a non-null, is resolved with these three modifiers.
C8_ThreeModifiers ==
  \E r \in Resolutions :
    /\ Len(NodeModifiers(r.ref)) = 3
    /\ Modifiers(r.type) = <<"NonNull", "List", "NonNull">>
    /\ r.ref.kind = "NonNullType"
    /\ getNamedType(r.type).k = "Placeholder"

\* C9: a reference in an object-only or interface-only slot that names a
\* defined type of another kind is replaced by the placeholder of the slot.
C9_WrongKindBecomesPlaceholder ==
  \A r \in Resolutions :
    LET n == RefName(r.ref)
        expected == IF r.slot = "objectType" THEN "ObjectTypeDefinition"
                    ELSE "InterfaceTypeDefinition"
    IN (/\ r.slot \in {"objectType", "interfaceType"}
        /\ n \notin BuiltinNames \cup ObjectPrototypeNames
        /\ Occurrences(n) # {}
        /\ Defs[SeqMin(Occurrences(n))].kind # expected)
       => r.type = PLACEHOLDER_TYPES(r.slot)

SchemaMessage == "Must provide only one schema definition."

\* C10 as stated: every multiple-schema-definition diagnostic references the
\* first two schema blocks of the document.
C10_FirstTwoBlocksOnly ==
  \A k \in DOMAIN errors :
    errors[k].message = SchemaMessage =>
      errors[k].locations = <<DefLoc(Ascending(SchemaBlocks)[1]),
                              DefLoc(Ascending(SchemaBlocks)[2])>>

\* C10 as amended: each schema block after the first adds one diagnostic, which
\* references the schema block just before it and the block itself; so the
\* j-th diagnostic references the j-th and (j+1)-th blocks.
C10_ConsecutiveBlocks ==
  LET seen == IF pc = "partition" THEN {d \in SchemaBlocks : d < i}
              ELSE IF pc = "start" \/ thrown = DocumentError THEN {}
              ELSE SchemaBlocks
      blocks == Ascending(seen)
      found == ErrorsWith(SchemaMessage)
  IN /\ Len(found) = IF seen = {} THEN 0 ELSE Len(blocks) - 1
     /\ \A j \in DOMAIN found :
          found[j].locations = <<DefLoc(blocks[j]), DefLoc(blocks[j + 1])>>

\* C10 witness: three schema blocks; the second diagnostic references the
\* second and the third.
C10_ThreeBlocks ==
  /\ Partitioned
  /\ Cardinality(SchemaBlocks) = 3
  /\ Len(ErrorsWith(SchemaMessage)) = 2
  /\ ErrorsWith(SchemaMessage)[2].locations
       = <<DefLoc(Ascending(SchemaBlocks)[2]), DefLoc(Ascending(SchemaBlocks)[3])>>

====
